---- MODULE Spec2Model ----
(***************************************************************************)
(* Model of the Progress & Economy engine of banana-clicker                *)
(* (src/src/App.tsx): the React state of the App component, the            *)
(* localStorage records it reads and writes, and one action per handler.   *)
(* React flushes the state updates of a discrete event and runs the        *)
(* effects of the following render before the next event is delivered, so  *)
(* every handler is one atomic step that includes the meta-save effect it  *)
(* triggers.                                                               *)
(***************************************************************************)
EXTENDS Integers, Sequences, FiniteSets, TLC

VARIABLES
  bananas,      \* useState(0)            App.tsx:54
  upgrades,     \* useState<string[]>([]) App.tsx:55 (a list, in purchase order)
  diamonds,     \* useState(0)            App.tsx:56
  slotCount,    \* useState(2)            App.tsx:57
  lsMeta,       \* localStorage['banana_clicker_meta']
  lsCount,      \* localStorage['banana_clicker_count']
  lsUpgrades,   \* localStorage['banana_clicker_upgrades']
  lsSlot,       \* localStorage['banana_clicker_slot_<n>'], n -> text
  pc,           \* "mount": effects of the first render pending; "ready"; "crashed"
  cmd,          \* the last handler that ran, with its argument
  alert,        \* the alert() the last handler showed ("none" if it showed none)
  error,        \* the exception the last handler left uncaught ("none" if none)
  captured,     \* history: per slot, the bananas/upgrades at its last save
  diamondPurchaseAmount, \* useState(1)   App.tsx:61 (the diamond shop slider)
  nsaves,       \* number of saves so far: the clock of the model
  nops          \* number of clicks, saves and reloads so far (bounded by MaxOps)

vars == <<bananas, upgrades, diamonds, slotCount, lsMeta, lsCount, lsUpgrades,
          lsSlot, pc, cmd, alert, error, captured, diamondPurchaseAmount,
          nsaves, nops>>

live == <<bananas, upgrades, diamonds, slotCount>>
storage == <<lsMeta, lsCount, lsUpgrades, lsSlot>>

-----------------------------------------------------------------------------
(* Bounds of the model *)

MaxOps == 2            \* clicks, saves and page reloads in one behaviour
MaxDiamonds == 1       \* largest diamond balance found in a stored meta record
MaxClicks == 11        \* operations in one behaviour of the click scenario

-----------------------------------------------------------------------------
(* The upgrade catalog *)

INITIAL_UPGRADES == <<
  [id |-> "double_banana", cost |-> 10,   type |-> "multiplier"],
  [id |-> "soup",          cost |-> 100,  type |-> "bonus"],
  [id |-> "plus_1488",     cost |-> 5242, type |-> "bonus"] >>

CatalogIds == {INITIAL_UPGRADES[i].id : i \in DOMAIN INITIAL_UPGRADES}

ExchangeRate == 200000000
DefaultSlotCount == 2
DefaultPurchaseAmount == 1
SliderMin == 1
SliderMax == 1000

Includes(list, x) == \E i \in DOMAIN list : list[i] = x

\* an ownership test that looks for an id the catalog does not use
hasDouble_WrongId(ups) == Includes(ups, "double")

hasDouble(ups) == Includes(ups, "double_banana")
hasSoup(ups) == Includes(ups, "soup")
has1488(ups) == Includes(ups, "plus_1488")
multiplier(ups) == IF hasDouble(ups) THEN 2 ELSE 1
bonus(ups) == (IF hasSoup(ups) THEN 5 ELSE 0) + (IF has1488(ups) THEN 1488 ELSE 0)
perClick(ups) == (1 + bonus(ups)) * multiplier(ups)

-----------------------------------------------------------------------------
(* localStorage texts.  getItem returns null for a key that was never set  *)
(* (Absent); a stored text is either the JSON text of a value, the decimal *)
(* text of a number, or a text JSON.parse rejects (Corrupt).               *)

Absent == [tag |-> "absent"]
Corrupt == [tag |-> "corrupt"]

\* if (text): null and "" are falsy, every other string is truthy
Truthy(text) == text.tag # "absent"

\* JSON.stringify of an object / array of finite numbers and strings
JSONstringify(v) == [tag |-> "json", val |-> v]

\* JSON.parse: TRUE iff it returns (FALSE: it throws SyntaxError)
JSONparses(text) == text.tag = "json"
JSONparse(text) == text.val

\* String(n) as localStorage stores a number, and parseFloat of that text
NumberText(n) == [tag |-> "num", val |-> n]
parseFloat(text) == text.val

\* d || 0, s || 2: 0 (like undefined, null and NaN) is falsy
OrDefault(x, dflt) == IF x = 0 THEN dflt ELSE x

\* buySlot is the only way slotCount grows, one diamond per slot
MaxSlotId == DefaultSlotCount + MaxDiamonds
SlotIds == 1 .. MaxSlotId

-----------------------------------------------------------------------------
(* The meta-save effect (deps [diamonds, slotCount]): runs after a render  *)
(* in which either dependency changed, and overwrites the whole record.    *)

MetaText(d, s) == JSONstringify([diamonds |-> d, slotCount |-> s])

\* a meta-save effect with an empty dependency list: it never runs again
MetaSaveEffect_MountOnly(oldD, oldS, newD, newS, stored) == stored

MetaSaveEffect(oldD, oldS, newD, newS, stored) ==
  IF <<oldD, oldS>> # <<newD, newS>> THEN MetaText(newD, newS) ELSE stored

NoCmd == [op |-> "none", id |-> "", slot |-> 0]
Cmd(op, id, slot) == [op |-> op, id |-> id, slot |-> slot]

-----------------------------------------------------------------------------
(* Initial state: a freshly constructed App over a store left by earlier   *)
(* sessions.  The program itself never writes the count / upgrades keys    *)
(* and never raises diamonds, so those records are drawn from small sets   *)
(* of well-formed values.                                                  *)

StoredMetas ==
  {Absent} \cup {MetaText(d, DefaultSlotCount) : d \in 0 .. MaxDiamonds}
StoredCounts == {Absent, NumberText(10)}
StoredUpgrades == {Absent, JSONstringify(<<"double_banana">>)}

FreshApp ==
  /\ bananas = 0
  /\ upgrades = <<>>
  /\ diamonds = 0
  /\ slotCount = DefaultSlotCount
  /\ diamondPurchaseAmount = DefaultPurchaseAmount
  /\ pc = "mount"
  /\ cmd = NoCmd
  /\ alert = "none"
  /\ error = "none"

Init ==
  /\ FreshApp
  /\ lsMeta \in StoredMetas
  /\ lsCount \in StoredCounts
  /\ lsUpgrades \in StoredUpgrades
  /\ lsSlot = [n \in SlotIds |-> Absent]
  /\ captured = [n \in SlotIds |-> Absent]
  /\ nsaves = 0
  /\ nops = 0

counters == <<nsaves, nops>>

-----------------------------------------------------------------------------
(* Mount: the two effects of the first render, then the re-render.         *)

\* the mount effect throws iff one of its JSON.parse calls throws
MountThrows ==
  \/ Truthy(lsMeta) /\ ~JSONparses(lsMeta)
  \/ Truthy(lsUpgrades) /\ ~JSONparses(lsUpgrades)

\* const { diamonds: d, slotCount: s } = JSON.parse(meta); d || 0; s || 2
MetaDiamonds(meta) == OrDefault(JSONparse(meta).diamonds, 0)

\* a startup read that takes the slot count from the diamonds field
MetaSlotCount_ReadsDiamonds(meta) ==
  OrDefault(JSONparse(meta).diamonds, DefaultSlotCount)

MetaSlotCount(meta) == OrDefault(JSONparse(meta).slotCount, DefaultSlotCount)

Mount ==
  /\ pc = "mount"
  /\ cmd' = Cmd("mount", "", 0)
  /\ alert' = "none"
  /\ UNCHANGED <<lsCount, lsUpgrades, lsSlot, captured, counters,
                 diamondPurchaseAmount>>
  /\ IF MountThrows
     THEN \* uncaught error in an effect: React unmounts the whole tree; the
          \* second effect of the component does not run
          /\ pc' = "crashed"
          /\ error' = "SyntaxError"
          /\ UNCHANGED <<bananas, upgrades, diamonds, slotCount, lsMeta>>
     ELSE LET d == IF Truthy(lsMeta) THEN MetaDiamonds(lsMeta) ELSE diamonds
              s == IF Truthy(lsMeta) THEN MetaSlotCount(lsMeta) ELSE slotCount
              \* the meta-save effect of the first render sees the initial state
              firstWrite == MetaText(diamonds, slotCount)
          IN /\ pc' = "ready"
             /\ error' = "none"
             /\ diamonds' = d
             /\ slotCount' = s
             /\ bananas' = IF Truthy(lsCount) THEN parseFloat(lsCount) ELSE bananas
             /\ upgrades' = IF Truthy(lsUpgrades) THEN JSONparse(lsUpgrades)
                            ELSE upgrades
             /\ lsMeta' = MetaSaveEffect(diamonds, slotCount, d, s, firstWrite)

-----------------------------------------------------------------------------
(* Handlers *)

\* the click handler, while fewer than limit operations have been counted
ClickWithin(limit) ==
  /\ pc = "ready"
  /\ nops < limit
  /\ nops' = nops + 1
  /\ bananas' = bananas + perClick(upgrades)
  /\ cmd' = Cmd("click", "", 0)
  /\ alert' = "none"
  /\ error' = "none"
  /\ UNCHANGED <<upgrades, diamonds, slotCount, storage, pc, captured, nsaves,
                 diamondPurchaseAmount>>

handleBananaClick == ClickWithin(MaxOps)

\* a purchase that forgets the affordability test
CanBuy_NoFundsCheck(b, ups, upgrade) == ~Includes(ups, upgrade.id)

\* a purchase that forgets the already-bought test
CanBuy_NoOwnedCheck(b, ups, upgrade) == b >= upgrade.cost

\* bananas >= upgrade.cost && !isBought
CanBuy(b, ups, upgrade) ==
  LET isBought == Includes(ups, upgrade.id)
  IN b >= upgrade.cost /\ ~isBought

\* a purchase that replaces the owned list instead of extending it
WithUpgrade_Replaces(ups, id) == <<id>>

\* [...prev, upgrade.id]
WithUpgrade(ups, id) == Append(ups, id)

buyUpgrade(upgrade) ==
  /\ pc = "ready"
  /\ cmd' = Cmd("buyUpgrade", upgrade.id, 0)
  /\ alert' = "none"
  /\ error' = "none"
  /\ IF CanBuy(bananas, upgrades, upgrade)
     THEN /\ bananas' = bananas - upgrade.cost
          /\ upgrades' = WithUpgrade(upgrades, upgrade.id)
     ELSE UNCHANGED <<bananas, upgrades>>
  /\ UNCHANGED <<diamonds, slotCount, storage, pc, captured, counters,
                 diamondPurchaseAmount>>

\* a slot purchase whose test lets a balance of 0 through
CanBuySlot_OffByOne(d) == d >= 0

\* diamonds >= 1
CanBuySlot(d) == d >= 1

buySlot ==
  /\ pc = "ready"
  /\ cmd' = Cmd("buySlot", "", 0)
  /\ error' = "none"
  /\ IF CanBuySlot(diamonds)
     THEN /\ diamonds' = diamonds - 1
          /\ slotCount' = slotCount + 1
          /\ alert' = "none"
     ELSE /\ alert' = "insufficient"
          /\ UNCHANGED <<diamonds, slotCount>>
  /\ lsMeta' = MetaSaveEffect(diamonds, slotCount, diamonds', slotCount', lsMeta)
  /\ UNCHANGED <<bananas, upgrades, lsCount, lsUpgrades, lsSlot, pc, captured,
                 counters, diamondPurchaseAmount>>

\* an exchange that sets the balance instead of adding to it
AfterExchange_Overwrites(b) == ExchangeRate

\* prev => prev + 200000000
AfterExchange(b) == b + ExchangeRate

exchangeDiamonds ==
  /\ pc = "ready"
  /\ cmd' = Cmd("exchangeDiamonds", "", 0)
  /\ error' = "none"
  /\ IF diamonds >= 1
     THEN /\ diamonds' = diamonds - 1
          /\ bananas' = AfterExchange(bananas)
          /\ alert' = "exchanged"
     ELSE /\ alert' = "insufficient"
          /\ UNCHANGED <<diamonds, bananas>>
  /\ lsMeta' = MetaSaveEffect(diamonds, slotCount, diamonds', slotCount, lsMeta)
  /\ UNCHANGED <<upgrades, slotCount, lsCount, lsUpgrades, lsSlot, pc, captured,
                 counters, diamondPurchaseAmount>>

\* new Date().toLocaleString(): the time of the n-th save is n
Now == nsaves + 1

\* a save that captures the bananas but not the owned list
SaveText_NoUpgrades(b, ups, t) ==
  JSONstringify([bananas |-> b, upgrades |-> <<>>, lastSaved |-> t])

SaveText(b, ups, t) ==
  JSONstringify([bananas |-> b, upgrades |-> ups, lastSaved |-> t])

\* a save whose storage key ignores the slot id: every save lands in slot 1
handleSaveToSlot_AlwaysSlot1(slotId) ==
  /\ pc = "ready"
  /\ nops < MaxOps
  /\ nops' = nops + 1
  /\ nsaves' = nsaves + 1
  /\ cmd' = Cmd("saveToSlot", "", slotId)
  /\ lsSlot' = [lsSlot EXCEPT ![1] = SaveText(bananas, upgrades, Now)]
  /\ captured' = [captured EXCEPT ![1] =
                    [tag |-> "snap", bananas |-> bananas, upgrades |-> upgrades]]
  /\ alert' = "saved"
  /\ error' = "none"
  /\ UNCHANGED <<live, lsMeta, lsCount, lsUpgrades, pc, diamondPurchaseAmount>>

handleSaveToSlot(slotId) ==
  /\ pc = "ready"
  /\ nops < MaxOps
  /\ nops' = nops + 1
  /\ nsaves' = nsaves + 1
  /\ cmd' = Cmd("saveToSlot", "", slotId)
  /\ lsSlot' = [lsSlot EXCEPT ![slotId] = SaveText(bananas, upgrades, Now)]
  /\ captured' = [captured EXCEPT ![slotId] =
                    [tag |-> "snap", bananas |-> bananas, upgrades |-> upgrades]]
  /\ alert' = "saved"
  /\ error' = "none"
  /\ UNCHANGED <<live, lsMeta, lsCount, lsUpgrades, pc, diamondPurchaseAmount>>

\* a load that resets the progress when the slot is empty
handleLoadFromSlot_ResetsOnEmpty(slotId) ==
  /\ pc = "ready"
  /\ cmd' = Cmd("loadFromSlot", "", slotId)
  /\ LET rawData == lsSlot[slotId]
         data == IF Truthy(rawData) THEN JSONparse(rawData)
                 ELSE [bananas |-> 0, upgrades |-> <<>>]
     IN /\ bananas' = data.bananas
        /\ upgrades' = data.upgrades
        /\ alert' = "loaded"
        /\ error' = "none"
  /\ UNCHANGED <<diamonds, slotCount, storage, pc, captured, counters,
                 diamondPurchaseAmount>>

handleLoadFromSlot(slotId) ==
  /\ pc = "ready"
  /\ cmd' = Cmd("loadFromSlot", "", slotId)
  /\ LET rawData == lsSlot[slotId]
     IN IF Truthy(rawData)
        THEN IF JSONparses(rawData)
             THEN /\ bananas' = JSONparse(rawData).bananas
                  /\ upgrades' = JSONparse(rawData).upgrades
                  /\ alert' = "loaded"
                  /\ error' = "none"
             ELSE \* JSON.parse throws inside the event handler
                  /\ alert' = "none"
                  /\ error' = "SyntaxError"
                  /\ UNCHANGED <<bananas, upgrades>>
        ELSE /\ alert' = "empty"
             /\ error' = "none"
             /\ UNCHANGED <<bananas, upgrades>>
  /\ UNCHANGED <<diamonds, slotCount, storage, pc, captured, counters,
                 diamondPurchaseAmount>>

\* the page is reloaded: a new App instance over the same localStorage
Reload ==
  /\ pc \in {"ready", "crashed"}
  /\ nops < MaxOps
  /\ nops' = nops + 1
  /\ bananas' = 0
  /\ upgrades' = <<>>
  /\ diamonds' = 0
  /\ slotCount' = DefaultSlotCount
  /\ diamondPurchaseAmount' = DefaultPurchaseAmount
  /\ pc' = "mount"
  /\ cmd' = NoCmd
  /\ alert' = "none"
  /\ error' = "none"
  /\ UNCHANGED <<storage, captured, nsaves>>

\* the slider of the diamond shop: onChange sets the purchase amount
setDiamondPurchaseAmount(n) ==
  /\ pc = "ready"
  /\ diamondPurchaseAmount' = n
  /\ cmd' = Cmd("setDiamondPurchaseAmount", "", 0)
  /\ alert' = "none"
  /\ error' = "none"
  /\ UNCHANGED <<live, storage, pc, captured, counters>>

\* a buy button that credits the chosen amount
attemptBuyDiamonds_Grants ==
  /\ pc = "ready"
  /\ cmd' = Cmd("attemptBuyDiamonds", "", 0)
  /\ alert' = "none"
  /\ error' = "none"
  /\ diamonds' = diamonds + diamondPurchaseAmount
  /\ lsMeta' = MetaSaveEffect(diamonds, slotCount, diamonds', slotCount, lsMeta)
  /\ UNCHANGED <<bananas, upgrades, slotCount, lsCount, lsUpgrades, lsSlot, pc,
                 captured, counters, diamondPurchaseAmount>>

\* the buy button of the diamond shop has no onClick: pressing it does nothing
attemptBuyDiamonds ==
  /\ pc = "ready"
  /\ cmd' = Cmd("attemptBuyDiamonds", "", 0)
  /\ alert' = "none"
  /\ error' = "none"
  /\ UNCHANGED <<live, storage, pc, captured, counters, diamondPurchaseAmount>>

Next ==
  \/ Mount
  \/ handleBananaClick
  \/ \E i \in DOMAIN INITIAL_UPGRADES : buyUpgrade(INITIAL_UPGRADES[i])
  \/ buySlot
  \/ exchangeDiamonds
  \/ \E n \in 1 .. slotCount : handleSaveToSlot(n)
  \/ \E n \in 1 .. slotCount : handleLoadFromSlot(n)
  \/ Reload

Spec == Init /\ [][Next]_vars

-----------------------------------------------------------------------------
(* The same program over a store in which the meta record, the upgrades    *)
(* record and the slot records may hold text that is not JSON.             *)

InitCorrupt ==
  /\ FreshApp
  /\ lsMeta \in StoredMetas \cup {Corrupt}
  /\ lsCount \in StoredCounts
  /\ lsUpgrades \in StoredUpgrades \cup {Corrupt}
  /\ lsSlot \in [SlotIds -> {Absent, Corrupt}]
  /\ captured = [n \in SlotIds |-> Absent]
  /\ nsaves = 0
  /\ nops = 0

SpecCorrupt == InitCorrupt /\ [][Next]_vars

-----------------------------------------------------------------------------
(* The click scenario: clicking, buying, saving and loading, with clicks   *)
(* allowed until MaxClicks operations have been counted (saves stay within *)
(* the first MaxOps of them).  The session starts without diamonds and     *)
(* with no stored upgrades record or one holding any set of catalog ids.   *)

OwnedLists ==
  {<<>>, <<"double_banana">>, <<"soup">>, <<"plus_1488">>,
   <<"double_banana", "soup">>, <<"double_banana", "plus_1488">>,
   <<"soup", "plus_1488">>, <<"double_banana", "soup", "plus_1488">>}

InitClicks ==
  /\ FreshApp
  /\ lsMeta = Absent
  /\ lsCount = Absent
  /\ lsUpgrades \in {Absent} \cup {JSONstringify(l) : l \in OwnedLists}
  /\ lsSlot = [n \in SlotIds |-> Absent]
  /\ captured = [n \in SlotIds |-> Absent]
  /\ nsaves = 0
  /\ nops = 0

NextClicks ==
  \/ Mount
  \/ ClickWithin(MaxClicks)
  \/ \E i \in DOMAIN INITIAL_UPGRADES : buyUpgrade(INITIAL_UPGRADES[i])
  \/ \E n \in 1 .. slotCount : handleSaveToSlot(n)
  \/ \E n \in 1 .. slotCount : handleLoadFromSlot(n)

SpecClicks == InitClicks /\ [][NextClicks]_vars

-----------------------------------------------------------------------------
(* The engine together with the diamond shop: the slider is moved to       *)
(* either end of its range, and the buy button is pressed.  The session    *)
(* starts from a stored meta record and no legacy progress records.        *)

SliderMarks == {SliderMin, SliderMax}

NextShop ==
  \/ Next
  \/ \E n \in SliderMarks : setDiamondPurchaseAmount(n)
  \/ attemptBuyDiamonds

InitShop ==
  /\ Init
  /\ lsCount = Absent
  /\ lsUpgrades = Absent

SpecShop == InitShop /\ [][NextShop]_vars

-----------------------------------------------------------------------------
(* Auxiliary definitions for the properties *)

Owned(ups) == {ups[i] : i \in DOMAIN ups}
Occurrences(ups, id) == Cardinality({i \in DOMAIN ups : ups[i] = id})
CostOf(id) == (CHOOSE u \in {INITIAL_UPGRADES[i] : i \in DOMAIN INITIAL_UPGRADES} :
                 u.id = id).cost
AllSlotsEmpty == \A n \in SlotIds : lsSlot[n] = Absent

-----------------------------------------------------------------------------
\* C1: in every state reachable by click, buyUpgrade, buySlot,
\* exchangeDiamonds, saveToSlot and loadFromSlot, bananas >= 0 and diamonds >= 0.
C1_NonNegative == bananas >= 0 /\ diamonds >= 0

\* a purchase of soup was declined with fewer than 100 bananas in hand
C1_Witness ==
  /\ pc = "ready"
  /\ cmd = Cmd("buyUpgrade", "soup", 0)
  /\ ~Includes(upgrades, "soup")
  /\ bananas < CostOf("soup")

\* C2: buyUpgrade(id) takes effect exactly when id is not owned and
\* bananas >= cost(id): bananas falls by cost(id) and id is appended once;
\* otherwise no state field changes; the owned list never holds an id twice,
\* and holds id exactly once after a call with id owned or affordable.
C2_BuyUpgrade ==
  /\ [](\A id \in CatalogIds : Occurrences(upgrades, id) <= 1)
  /\ [][cmd'.op = "buyUpgrade" =>
         LET id == cmd'.id
         IN /\ UNCHANGED <<diamonds, slotCount, storage>>
            /\ IF ~Includes(upgrades, id) /\ bananas >= CostOf(id)
               THEN /\ bananas' = bananas - CostOf(id)
                    /\ upgrades' = Append(upgrades, id)
               ELSE UNCHANGED <<bananas, upgrades>>
            /\ (Includes(upgrades, id) \/ bananas >= CostOf(id))
                 => Occurrences(upgrades', id) = 1]_vars

\* double_banana was bought with the 10 stored bananas, nothing else happened
C2_Witness ==
  /\ cmd = Cmd("buyUpgrade", "double_banana", 0)
  /\ lsCount = NumberText(10) /\ lsUpgrades = Absent
  /\ nops = 0 /\ AllSlotsEmpty
  /\ bananas = 0
  /\ upgrades = <<"double_banana">>

\* C3 as claimed, within one session: an id that is owned stays owned after
\* every command, loadFromSlot included.
C3_Permanent ==
  [][(pc = "ready" /\ pc' = "ready") => Owned(upgrades) \subseteq Owned(upgrades')]_vars

\* C3 amended: within a session an owned id stays owned across click,
\* buyUpgrade, buySlot, exchangeDiamonds, saveToSlot and the load of an empty
\* slot; the load of a saved slot replaces the owned list by the list that
\* save captured.
C3_PermanentUntilLoad ==
  [][(pc = "ready" /\ pc' = "ready") =>
       IF cmd'.op = "loadFromSlot" /\ alert' = "loaded"
       THEN upgrades' = captured[cmd'.slot].upgrades
       ELSE Owned(upgrades) \subseteq Owned(upgrades')]_vars

\* an owned upgrade is still owned after an exchange that took place
C3_Witness ==
  /\ pc = "ready"
  /\ cmd.op = "exchangeDiamonds" /\ alert = "exchanged"
  /\ upgrades # <<>>

\* C4: loadFromSlot(n) of a saved slot restores exactly the bananas and the
\* owned list captured by the last saveToSlot(n), directly after the save or
\* after any other commands; a saved slot never loads as empty.
C4_RoundTrip ==
  \A n \in SlotIds :
    (cmd.op = "loadFromSlot" /\ cmd.slot = n) =>
      IF captured[n].tag = "snap"
      THEN /\ alert = "loaded"
           /\ bananas = captured[n].bananas
           /\ upgrades = captured[n].upgrades
      ELSE alert = "empty"

\* a slot saved at 0 bananas was loaded after one more click or page reload
C4_Witness ==
  /\ cmd.op = "loadFromSlot" /\ alert = "loaded"
  /\ nsaves = 1 /\ nops = 2
  /\ captured[cmd.slot].tag = "snap"
  /\ bananas = 0

\* C5: loadFromSlot(n) of a slot without a record changes no state field and
\* no stored record, and shows the empty-slot alert, not the loaded one.
C5_EmptySlot ==
  [][(cmd'.op = "loadFromSlot" /\ lsSlot[cmd'.slot] = Absent) =>
       /\ UNCHANGED <<live, storage>>
       /\ alert' = "empty"]_vars

\* an empty slot was loaded while bananas and an upgrade were held
C5_Witness ==
  /\ cmd.op = "loadFromSlot" /\ alert = "empty"
  /\ lsSlot[cmd.slot] = Absent
  /\ bananas > 0 /\ upgrades # <<>>

\* C6: buySlot succeeds exactly when diamonds >= 1: diamonds - 1,
\* slotCount + 1, bananas and upgrades unchanged; with diamonds = 0 it shows
\* the insufficient-diamonds alert and changes nothing.
C6_BuySlot ==
  [][cmd'.op = "buySlot" =>
       IF diamonds >= 1
       THEN /\ diamonds' = diamonds - 1
            /\ slotCount' = slotCount + 1
            /\ alert' # "insufficient"
            /\ UNCHANGED <<bananas, upgrades, lsCount, lsUpgrades, lsSlot>>
       ELSE /\ alert' = "insufficient"
            /\ UNCHANGED <<live, storage>>]_vars

\* a third slot was bought with the last diamond, and the next attempt declined
C6_Witness ==
  /\ cmd.op = "buySlot" /\ alert = "insufficient"
  /\ diamonds = 0
  /\ slotCount = DefaultSlotCount + 1

\* C7: exchangeDiamonds succeeds exactly when diamonds >= 1: diamonds - 1,
\* bananas + 200,000,000, upgrades and slotCount unchanged; with diamonds = 0
\* it shows the failure alert and changes nothing.
C7_Exchange ==
  [][cmd'.op = "exchangeDiamonds" =>
       IF diamonds >= 1
       THEN /\ diamonds' = diamonds - 1
            /\ bananas' = bananas + 200000000
            /\ alert' = "exchanged"
            /\ UNCHANGED <<upgrades, slotCount, lsCount, lsUpgrades, lsSlot>>
       ELSE /\ alert' = "insufficient"
            /\ UNCHANGED <<live, storage>>]_vars

\* the single diamond was exchanged on top of a positive banana balance
C7_Witness ==
  /\ cmd.op = "exchangeDiamonds" /\ alert = "exchanged"
  /\ diamonds = 0
  /\ bananas > ExchangeRate

\* C8: slotCount >= 2 in every state, the state after the startup read
\* included, and it never decreases within a session.
C8_SlotCount ==
  /\ [](slotCount >= 2)
  /\ [][pc' # "mount" => slotCount' >= slotCount]_vars

\* the startup read restored a slot count above the default
C8_Witness ==
  /\ cmd.op = "mount" /\ pc = "ready"
  /\ slotCount > DefaultSlotCount

\* C9: once a command and the meta write it triggers have completed, the
\* stored meta record is the whole record {diamonds, slotCount} of the live
\* state; and startup leaves a stored meta record as it found it.
C9_MetaTracksLive ==
  /\ [](pc = "ready" => lsMeta = MetaText(diamonds, slotCount))
  /\ [][(pc = "mount" /\ pc' = "ready" /\ Truthy(lsMeta)) => lsMeta' = lsMeta]_vars

\* startup over a stored meta record that is not the default one
C9_Witness ==
  /\ cmd.op = "mount" /\ pc = "ready"
  /\ lsMeta = MetaText(diamonds, slotCount)
  /\ <<diamonds, slotCount>> # <<0, DefaultSlotCount>>

\* C10: a record that is not JSON never crashes the engine and no handler
\* leaves an exception uncaught.
C10_CorruptIsAbsent == pc # "crashed" /\ error = "none"

\* C11: every click adds exactly (1 + bonus) * multiplier for the upgrades
\* owned at that moment (multiplier 2 iff double_banana is owned, bonus 5 for
\* soup plus 1488 for plus_1488) and changes nothing else: {} gives 1,
\* {double_banana} 2, {soup} 6, {double_banana, soup} 12, all three 2988; and
\* from 0 bananas and no upgrade, n clicks give n bananas.
ClaimedGain(owned) ==
  (1 + (IF "soup" \in owned THEN 5 ELSE 0)
     + (IF "plus_1488" \in owned THEN 1488 ELSE 0))
  * (IF "double_banana" \in owned THEN 2 ELSE 1)

ClaimedExamples ==
  /\ Owned(upgrades) = {} => perClick(upgrades) = 1
  /\ Owned(upgrades) = {"double_banana"} => perClick(upgrades) = 2
  /\ Owned(upgrades) = {"soup"} => perClick(upgrades) = 6
  /\ Owned(upgrades) = {"double_banana", "soup"} => perClick(upgrades) = 12
  /\ Owned(upgrades) = CatalogIds => perClick(upgrades) = 2988

C11_ClickGain ==
  /\ [](ClaimedExamples)
  /\ []((lsUpgrades = Absent /\ AllSlotsEmpty /\ upgrades = <<>>) => bananas = nops)
  /\ [][cmd'.op = "click" =>
         /\ bananas' = bananas + ClaimedGain(Owned(upgrades))
         /\ UNCHANGED <<upgrades, diamonds, slotCount, storage>>]_vars

\* the scenario's last state: 10 clicks, double_banana bought, 1 more click
C11_Witness ==
  /\ cmd.op = "click"
  /\ lsUpgrades = Absent /\ AllSlotsEmpty
  /\ nops = 11
  /\ upgrades = <<"double_banana">>
  /\ bananas = 2

\* C12: moving the purchase slider and pressing the buy button of the diamond
\* shop change no engine field and no stored record, whatever the amount; no
\* command of a session raises diamonds above the balance read at startup.
C12_ShopIsStub ==
  /\ [][cmd'.op \in {"setDiamondPurchaseAmount", "attemptBuyDiamonds"} =>
         UNCHANGED <<live, storage>>]_vars
  /\ [][(pc = "ready" /\ pc' = "ready") => diamonds' <= diamonds]_vars

\* the buy button was pressed with the slider at 1000
C12_Witness ==
  /\ cmd.op = "attemptBuyDiamonds"
  /\ diamondPurchaseAmount = 1000
  /\ lsMeta = MetaText(diamonds, slotCount)

\* C13: saveToSlot(n) writes only the record of slot n, which holds the
\* bananas and upgrades of the moment (with the save time, without diamonds
\* or slotCount), and changes no live field, no other slot record and no
\* other stored record; loadFromSlot(n) changes at most bananas and upgrades
\* and leaves diamonds, slotCount and every stored record as they were.
C13_SlotScope ==
  [][/\ cmd'.op = "saveToSlot" =>
          /\ UNCHANGED <<live, lsMeta, lsCount, lsUpgrades>>
          /\ \A m \in SlotIds \ {cmd'.slot} : lsSlot'[m] = lsSlot[m]
          /\ JSONparses(lsSlot'[cmd'.slot])
          /\ DOMAIN JSONparse(lsSlot'[cmd'.slot]) = {"bananas", "upgrades", "lastSaved"}
          /\ JSONparse(lsSlot'[cmd'.slot]).bananas = bananas
          /\ JSONparse(lsSlot'[cmd'.slot]).upgrades = upgrades
     /\ cmd'.op = "loadFromSlot" =>
          UNCHANGED <<diamonds, slotCount, storage>>]_vars

\* slot 2 was saved while slot 1 kept the different record of an earlier save
C13_Witness ==
  /\ cmd = Cmd("saveToSlot", "", 2)
  /\ JSONparses(lsSlot[1]) /\ JSONparses(lsSlot[2])
  /\ JSONparse(lsSlot[1]).bananas # JSONparse(lsSlot[2]).bananas
  /\ JSONparse(lsSlot[2]).bananas = bananas

====
